---- MODULE Spec2Model ----
(***************************************************************************)
(* freegeoip-dns: a DNS server answering TXT questions with the geo record *)
(* of an IP address or host name.  The repository holds two revisions of   *)
(* the program, src/main.go and src/unnamed/part_000; both are modelled,   *)
(* the variable build says which one runs.                                 *)
(*                                                                         *)
(* Strings that the code takes apart or puts together are sequences of     *)
(* one-character strings; opaque keys (language codes) are plain strings.  *)
(***************************************************************************)
EXTENDS Integers, Sequences, FiniteSets, TLC

VARIABLES
    pc,      \* position of main: "start", "serving", "version_exit",
             \* "fatal_open", "fatal_listen", "panic"
    build,   \* "main.go" or "part_000"
    cfg,     \* the parsed command-line flags
    opens,   \* the database open calls made by openDB, in order
    req,     \* the last message handed to ServeDNS (<<>> before the first)
    res,     \* what ServeDNS did with it: [panic, out]
    fin,     \* input of the pure function under check
    fout     \* its output

vars == <<pc, build, cfg, opens, req, res, fin, fout>>

----------------------------------------------------------------------------
(* Bounds *)

MaxQuestions == 1
MaxAddrs == 2
MaxNameLen == 10
MaxDsnLen == 4
MaxRegions == 1
MaxCoord == 31
MaxMetro == 1

----------------------------------------------------------------------------
(* Strings *)

Digits == <<"0", "1", "2", "3", "4", "5", "6", "7", "8", "9">>

IsDigit(c) == \E i \in 1..10 : Digits[i] = c

DigitVal(c) == (CHOOSE i \in 1..10 : Digits[i] = c) - 1

\* strconv.Itoa for n >= 0
RECURSIVE Itoa(_)
Itoa(n) == IF n < 10 THEN <<Digits[n + 1]>>
           ELSE Itoa(n \div 10) \o <<Digits[(n % 10) + 1]>>

\* strings.Index, 1-based; 0 when sep does not occur in s
RECURSIVE IndexFrom(_, _, _)
IndexFrom(s, sep, i) ==
    IF i + Len(sep) - 1 > Len(s) THEN 0
    ELSE IF SubSeq(s, i, i + Len(sep) - 1) = sep THEN i
    ELSE IndexFrom(s, sep, i + 1)

Index(s, sep) == IndexFrom(s, sep, 1)

\* strings.LastIndex, 1-based; 0 when sep does not occur in s
RECURSIVE LastIndexFrom(_, _, _)
LastIndexFrom(s, sep, i) ==
    IF i < 1 THEN 0
    ELSE IF SubSeq(s, i, i + Len(sep) - 1) = sep THEN i
    ELSE LastIndexFrom(s, sep, i - 1)

LastIndex(s, sep) == LastIndexFrom(s, sep, Len(s) - Len(sep) + 1)

\* a faulty variant: s is cut at the last occurrence of sep
SplitLast(s, sep) ==
    IF LastIndex(s, sep) = 0 THEN s ELSE SubSeq(s, 1, LastIndex(s, sep) - 1)

\* strings.Split(s, sep)[0] for a non-empty sep
SplitFirst(s, sep) ==
    IF Index(s, sep) = 0 THEN s ELSE SubSeq(s, 1, Index(s, sep) - 1)

\* strings.Join
RECURSIVE Join(_, _)
Join(a, sep) ==
    IF Len(a) = 0 THEN <<>>
    ELSE IF Len(a) = 1 THEN a[1]
    ELSE a[1] \o sep \o Join(Tail(a), sep)

\* the fields of s between the '.' separators
RECURSIVE Fields(_)
Fields(s) ==
    IF Index(s, <<".">>) = 0 THEN <<s>>
    ELSE <<SubSeq(s, 1, Index(s, <<".">>) - 1)>>
         \o Fields(SubSeq(s, Index(s, <<".">>) + 1, Len(s)))

\* net.dtoi on a whole field: the number, or -1 when the field is not a
\* non-empty run of digits or the number exceeds 0xFFFFFF
RECURSIVE Dtoi(_, _)
Dtoi(f, acc) ==
    IF Len(f) = 0 THEN acc
    ELSE IF ~IsDigit(f[1]) THEN -1
    ELSE IF acc * 10 + DigitVal(f[1]) >= 16777215 THEN -1
    ELSE Dtoi(Tail(f), acc * 10 + DigitVal(f[1]))

Octet(f) == IF Len(f) = 0 THEN -1 ELSE Dtoi(f, 0)

\* net.ParseIP on a string without ':' (no IPv6 literal occurs in the
\* names modelled): four decimal fields of at most 255; <<>> is nil
ParseIP(s) ==
    LET fs == Fields(s) IN
    IF Len(fs) = 4 /\ \A i \in 1..4 : Octet(fs[i]) >= 0 /\ Octet(fs[i]) <= 255
    THEN [i \in 1..4 |-> Octet(fs[i])]
    ELSE <<>>

\* net.IP.String for an IPv4 address
IPString(ip) == Join([i \in 1..4 |-> Itoa(ip[i])], <<".">>)

----------------------------------------------------------------------------
(* Floating point.  A coordinate is a float64; the model names it by the   *)
(* decimal fraction num/den it is nearest to (den is 1000000 for a value   *)
(* read from the database, 1000 for a result of roundFloat).               *)

Abs(n) == IF n < 0 THEN -n ELSE n

RECURSIVE Pow10(_)
Pow10(k) == IF k = 0 THEN 1 ELSE 10 * Pow10(k - 1)

\* scale a/b (a > 0) by powers of two into [1, 2): the result is <<a2, b2>>
RECURSIVE Normalize(_, _)
Normalize(a, b) ==
    IF a < b THEN Normalize(2 * a, b)
    ELSE IF a >= 2 * b THEN Normalize(a, 2 * b)
    ELSE <<a, b>>

\* k more bits of the binary expansion of r/b (r < b): <<remainder, last bit>>
RECURSIVE Bits(_, _, _, _)
Bits(r, b, k, last) ==
    IF k = 0 THEN <<r, last>>
    ELSE Bits((2 * r) % b, b, k - 1, (2 * r) \div b)

\* sign of float64(a/b) - a/b for a >= 0: the 53-bit significand is
\* rounded to nearest, ties to even (IEEE 754)
BinErr(a, b) ==
    IF a = 0 THEN 0
    ELSE LET n  == Normalize(a, b)
             rb == Bits(n[1] - n[2], n[2], 52, 1)
         IN  IF rb[1] = 0 THEN 0
             ELSE IF 2 * rb[1] < n[2] THEN -1
             ELSE IF 2 * rb[1] > n[2] THEN 1
             ELSE IF rb[2] = 0 THEN -1 ELSE 1

\* the hundredths strconv.FormatFloat(v, 'f', 2, 64) prints for
\* v = float64(a/den), a >= 0: the exact binary value is rounded to nearest,
\* ties to even
Hundredths(a, den) ==
    LET unit == den \div 100
        h0   == a \div unit
        rem  == a % unit
    IN  IF 2 * rem < unit THEN h0
        ELSE IF 2 * rem > unit THEN h0 + 1
        ELSE IF BinErr(a, den) > 0 THEN h0 + 1
        ELSE IF BinErr(a, den) < 0 THEN h0
        ELSE IF h0 % 2 = 0 THEN h0 ELSE h0 + 1

\* the 'f' format with two decimals of h hundredths
Fixed2(neg, h) ==
    (IF neg THEN <<"-">> ELSE <<>>)
    \o Itoa(h \div 100) \o <<".">> \o <<Digits[((h \div 10) % 10) + 1]>>
    \o <<Digits[(h % 10) + 1]>>

\* a faulty variant: the digits after the second decimal are cut off, not rounded
FormatFloatTruncated(num, den) == Fixed2(num < 0, Abs(num) \div (den \div 100))

\* strconv.FormatFloat(float64(num/den), 'f', 2, 64)
FormatFloat(num, den) == Fixed2(num < 0, Hundredths(Abs(num), den))

\* roundFloat(val, roundOn, places) for val = float64(num/1000000) and
\* roundOn = tenths/10: the result is float64(k / 10^places), k is returned.
\* math.Modf gives the fraction the sign of val, so a negative val always
\* takes the Floor branch when roundOn > 0.
roundFloat(num, tenths, places) ==
    LET scale == 1000000 \div Pow10(places)
        trunc == IF num >= 0 THEN num \div scale ELSE -((-num) \div scale)
        div   == num - trunc * scale
        ceil  == IF div > 0 THEN trunc + 1 ELSE trunc
        floor == IF div < 0 THEN trunc - 1 ELSE trunc
    IN  IF 10 * div >= tenths * scale THEN ceil ELSE floor

----------------------------------------------------------------------------
(* The geo record and the response formatter *)

Langs == {"en", "pt"}

\* Names[lang] of a Go map: the zero string when the key is absent
MapGet(m, k) == IF k \in DOMAIN m THEN m[k] ELSE <<>>

Sep == <<" ", " ", " ", " ">>

\* the zero value of Query, what `var query Query` holds before Lookup
\* fills it
ZeroQuery ==
    [Country  |-> [ISOCode |-> <<>>, Names |-> <<>>],
     Region   |-> <<>>,
     City     |-> [Names |-> <<>>],
     Location |-> [Latitude |-> 0, Longitude |-> 0, MetroCode |-> 0,
                   TimeZone |-> <<>>],
     Postal   |-> [Code |-> <<>>]]

\* a faulty variant: a record without subdivision gets two empty fields in its place
responseFieldsPadded(query, ip, lang) ==
    <<IPString(ip), query.Country.ISOCode, MapGet(query.Country.Names, lang)>>
    \o (IF Len(query.Region) > 0
        THEN <<query.Region[1].ISOCode, MapGet(query.Region[1].Names, lang)>>
        ELSE <<<<>>, <<>>>>)
    \o <<MapGet(query.City.Names, lang),
         query.Postal.Code,
         query.Location.TimeZone,
         FormatFloat(query.Location.Latitude, 1000000),
         FormatFloat(query.Location.Longitude, 1000000),
         Itoa(query.Location.MetroCode)>>

\* the slice ret of response, before it is joined
responseFields(query, ip, lang) ==
    <<IPString(ip), query.Country.ISOCode, MapGet(query.Country.Names, lang)>>
    \o (IF Len(query.Region) > 0
        THEN <<query.Region[1].ISOCode, MapGet(query.Region[1].Names, lang)>>
        ELSE <<>>)
    \o <<MapGet(query.City.Names, lang),
         query.Postal.Code,
         query.Location.TimeZone,
         FormatFloat(query.Location.Latitude, 1000000),
         FormatFloat(query.Location.Longitude, 1000000),
         Itoa(query.Location.MetroCode)>>

response(query, ip, lang) == Join(responseFields(query, ip, lang), Sep)

----------------------------------------------------------------------------
(* openDB *)

IsLetter(c) == c \in {"h", "t", "p", "f"}

\* url.getscheme: <<scheme, err>>
RECURSIVE getscheme(_, _)
getscheme(rawurl, i) ==
    IF i > Len(rawurl) THEN <<<<>>, FALSE>>
    ELSE IF IsLetter(rawurl[i]) THEN getscheme(rawurl, i + 1)
    ELSE IF IsDigit(rawurl[i]) \/ rawurl[i] \in {"+", "-", "."}
         THEN IF i = 1 THEN <<<<>>, FALSE>> ELSE getscheme(rawurl, i + 1)
    ELSE IF rawurl[i] = ":"
         THEN IF i = 1 THEN <<<<>>, TRUE>>
              ELSE <<SubSeq(rawurl, 1, i - 1), FALSE>>
    ELSE <<<<>>, FALSE>>

\* url.Parse, as far as openDB reads its result: [Scheme, err]
urlParse(dsn) ==
    [Scheme |-> getscheme(dsn, 1)[1], err |-> getscheme(dsn, 1)[2]]

\* a faulty variant: a string that fails to parse is opened as a URL
openDBUnparsedRemote(dsn, updateIntvl, maxRetryIntvl) ==
    LET u == urlParse(dsn) IN
    IF ~u.err /\ Len(u.Scheme) = 0
    THEN [fn |-> "Open", dsn |-> dsn, args |-> <<>>]
    ELSE [fn |-> "OpenURL", dsn |-> dsn,
          args |-> <<updateIntvl, maxRetryIntvl>>]

\* the call openDB makes
openDB(dsn, updateIntvl, maxRetryIntvl) ==
    LET u == urlParse(dsn) IN
    IF u.err \/ Len(u.Scheme) = 0
    THEN [fn |-> "Open", dsn |-> dsn, args |-> <<>>]
    ELSE [fn |-> "OpenURL", dsn |-> dsn,
          args |-> <<updateIntvl, maxRetryIntvl>>]

----------------------------------------------------------------------------
(* The DNS handler *)

RcodeSuccess == 0
RcodeServerFailure == 2
RcodeNameError == 3

\* what the collaborators answer during one call of ServeDNS:
\*   ips, err  the result of net.LookupIP
\*   pick      the value of rand.Intn, 1-based
\*   dberr     whether db.Lookup returns an error
\*   rec       the record db.Lookup fills in otherwise

Ev(op, arg) == [op |-> op, arg |-> arg]

\* a faulty variant: the error of net.LookupIP is not looked at
queryIPNoErrCheck(q, domain, env) ==
    LET h == IF domain # <<>> THEN SplitFirst(q.Name, <<".">> \o domain)
             ELSE q.Name
    IN  IF ParseIP(h) # <<>> THEN [ip |-> ParseIP(h), calls |-> <<>>]
        ELSE IF Len(env.ips) = 0
             THEN [ip |-> <<>>, calls |-> <<Ev("LookupIP", h)>>]
        ELSE [ip |-> env.ips[env.pick], calls |-> <<Ev("LookupIP", h)>>]

\* queryIP: [ip, calls]; ip = <<>> is nil
queryIP(q, domain, env) ==
    LET h == IF domain # <<>> THEN SplitFirst(q.Name, <<".">> \o domain)
             ELSE q.Name
    IN  IF ParseIP(h) # <<>> THEN [ip |-> ParseIP(h), calls |-> <<>>]
        ELSE IF env.err
             THEN [ip |-> <<>>, calls |-> <<Ev("LookupIP", h)>>]
        ELSE IF Len(env.ips) = 0
             THEN [ip |-> <<>>, calls |-> <<Ev("LookupIP", h)>>]
        ELSE [ip |-> env.ips[env.pick], calls |-> <<Ev("LookupIP", h)>>]

\* dns.Msg.SetReply followed by the fields the handler sets
Reply(r, rcode, answer) ==
    Ev("WriteMsg", [Rcode |-> rcode, Answer |-> answer])

\* handle.log of part_000
log(h, err, r) ==
    IF h.silent THEN <<>>
    ELSE <<Ev("Printf",
              [q    |-> r.Question[1],
               code |-> IF err = RcodeServerFailure THEN "SERVFAIL"
                        ELSE IF err = RcodeNameError THEN "NXDOMAIN"
                        ELSE "RESOLVED"])>>

\* handle.fail of part_000
fail(h, err, r) == <<Reply(r, err, <<>>)>> \o log(h, err, r)

TXT(name, txt) ==
    [Name |-> name, Rrtype |-> "TXT", Class |-> "INET", Ttl |-> 0,
     Txt |-> <<txt>>]

\* a faulty variant: the class of the question is not looked at
IsTXTTypeOnly(q) == q.Qtype = "TXT"

\* the test of ServeDNS on the question
IsTXT(q) == q.Qtype = "TXT" /\ q.Qclass = "INET"

\* handle.ServeDNS of part_000: [panic, out]
ServeDNS(h, r, env) ==
    IF Len(r.Question) = 0 THEN [panic |-> TRUE, out |-> <<>>]
    ELSE
    LET q  == r.Question[1]
        qi == queryIP(q, h.domain, env)
    IN  IF IsTXT(q)
        THEN IF qi.ip = <<>>
             THEN [panic |-> FALSE,
                   out |-> qi.calls \o fail(h, RcodeNameError, r)]
             ELSE IF env.dberr
             THEN [panic |-> FALSE,
                   out |-> qi.calls \o <<Ev("Lookup", qi.ip)>>
                           \o fail(h, RcodeServerFailure, r)]
             ELSE [panic |-> FALSE,
                   out |-> qi.calls \o <<Ev("Lookup", qi.ip)>>
                           \o <<Reply(r, RcodeSuccess,
                                 <<TXT(q.Name, response(env.rec, qi.ip, h.lang))>>)>>
                           \o log(h, RcodeSuccess, r)]
        ELSE [panic |-> FALSE, out |-> fail(h, RcodeNameError, r)]

\* handle.log of main.go
logMain(h, resolved, r) ==
    IF h.silent THEN <<>>
    ELSE <<Ev("Printf",
              [q    |-> r.Question[1],
               code |-> IF resolved THEN "RESOLVED" ELSE "NXDOMAIN"])>>

\* handle.nxdomain of main.go
nxdomain(h, r) == <<Reply(r, RcodeNameError, <<>>)>> \o logMain(h, FALSE, r)

\* handle.ServeDNS of main.go: the error of db.Lookup is dropped, and the
\* record stays the zero Query when the lookup fails
ServeDNSMain(h, r, env) ==
    IF Len(r.Question) = 0 THEN [panic |-> TRUE, out |-> <<>>]
    ELSE
    LET q     == r.Question[1]
        qi    == queryIP(q, h.domain, env)
        query == IF env.dberr THEN ZeroQuery ELSE env.rec
    IN  IF IsTXT(q)
        THEN IF qi.ip = <<>>
             THEN [panic |-> FALSE, out |-> qi.calls \o nxdomain(h, r)]
             ELSE [panic |-> FALSE,
                   out |-> qi.calls \o <<Ev("Lookup", qi.ip)>>
                           \o <<Reply(r, RcodeSuccess,
                                 <<TXT(q.Name, response(query, qi.ip, h.lang))>>)>>
                           \o logMain(h, TRUE, r)]
        ELSE [panic |-> FALSE, out |-> nxdomain(h, r)]

----------------------------------------------------------------------------
(* Inputs *)

Range(f) == {f[i] : i \in DOMAIN f}

Strs(A, n) == UNION {[1..k -> A] : k \in 0..n}

None == <<>>

Domains == {<<>>, <<"g">>}

IPs == {<<10, 0, 0, 1>>, <<10, 0, 0, 2>>}

\* a record with MaxRegions subdivisions at most
Region1 == [ISOCode |-> <<"C", "A">>,
            Names |-> [l \in {"en"} |-> <<"C", "a", "l">>]]

Record(nregions, lat, lon, metro) ==
    [Country  |-> [ISOCode |-> <<"U", "S">>,
                   Names |-> [l \in {"en"} |-> <<"U", "S", "A">>]],
     Region   |-> [i \in 1..nregions |-> Region1],
     City     |-> [Names |-> [l \in {"en"} |-> <<"S", "F">>]],
     Location |-> [Latitude |-> lat, Longitude |-> lon, MetroCode |-> metro,
                   TimeZone |-> <<"P", "S", "T">>],
     Postal   |-> [Code |-> <<"9", "4">>]]

\* coordinates in millionths of a degree: a grid around zero that holds
\* the values half way between two hundredths, and the two of the README
Coords == {c * 500 : c \in -MaxCoord..MaxCoord} \cup {37774929, -122419416}

Records == {Record(n, lat, lon, m * 511) :
                n \in 0..MaxRegions, lat \in Coords, lon \in Coords,
                m \in 0..MaxMetro}

\* what the collaborators may answer during one call of ServeDNS
Envs == {e \in [ips : Strs(IPs, MaxAddrs), err : BOOLEAN, pick : 1..MaxAddrs,
                dberr : BOOLEAN,
                rec : {Record(1, 37774929, -122419416, 807)}] :
            e.pick <= IF Len(e.ips) = 0 THEN 1 ELSE Len(e.ips)}

\* fully qualified names, as the DNS library hands them over
IsFQDN(s) ==
    /\ Len(s) >= 1
    /\ s[Len(s)] = "."
    /\ Len(s) > 1 => s[1] # "."
    /\ \A i \in 1..(Len(s) - 1) : ~(s[i] = "." /\ s[i + 1] = ".")

FQDNs == {s \in Strs({"1", "g", "."}, MaxNameLen) : IsFQDN(s)}

ReqNames == {<<"1", ".", "1", ".", "1", ".", "1", ".", "g", ".">>,
             <<"1", ".", "1", ".", "1", ".", "1", ".">>,
             <<"g", ".", "g", ".">>}

Questions == [Name : ReqNames, Qtype : {"TXT", "A"}, Qclass : {"INET", "CHAOS"}]

Msgs == [Question : Strs(Questions, MaxQuestions)]

Flags == [domain : Domains,
          dsn : {<<"h", ":", "/">>, <<"/", "h">>},
          updateIntvl : {24}, retryIntvl : {1},
          silent : BOOLEAN, lang : {"en"}, version : BOOLEAN]

Builds == {"main.go", "part_000"}

NoResult == [panic |-> FALSE, out |-> <<>>]

----------------------------------------------------------------------------
(* The server *)

Init ==
    /\ pc = "start"
    /\ build \in Builds
    /\ cfg \in Flags
    /\ opens = <<>>
    /\ req = None
    /\ res = NoResult
    /\ fin = None
    /\ fout = None

\* main up to the call of ListenAndServe
Main ==
    /\ pc = "start"
    /\ IF cfg.version
       THEN pc' = "version_exit" /\ opens' = opens
       ELSE /\ opens' = Append(opens,
                               openDB(cfg.dsn, cfg.updateIntvl, cfg.retryIntvl))
            /\ \E err \in BOOLEAN :
                   pc' = IF err THEN "fatal_open" ELSE "listening"
    /\ UNCHANGED <<build, cfg, req, res, fin, fout>>

\* ListenAndServe binds the socket and serves
Listen ==
    /\ pc = "listening"
    /\ pc' = "serving"
    /\ UNCHANGED <<build, cfg, opens, req, res, fin, fout>>

\* ListenAndServe returns an error: log.Fatal
ListenFails ==
    /\ pc = "listening"
    /\ pc' = "fatal_listen"
    /\ UNCHANGED <<build, cfg, opens, req, res, fin, fout>>

Handle == [silent |-> cfg.silent, lang |-> cfg.lang, domain |-> cfg.domain]

\* the server hands one message to ServeDNS, which runs to its end; a panic
\* of the handler is not recovered and ends the process
Serve ==
    /\ pc = "serving"
    /\ \E r \in Msgs, env \in Envs :
          /\ req' = [msg |-> r, env |-> env]
          /\ res' = IF build = "part_000" THEN ServeDNS(Handle, r, env)
                    ELSE ServeDNSMain(Handle, r, env)
          /\ pc' = IF res'.panic THEN "panic" ELSE "handled"
    /\ UNCHANGED <<build, cfg, opens, fin, fout>>

\* the handler has returned; the server waits for the next message
NextRequest ==
    /\ pc = "handled"
    /\ pc' = "serving"
    /\ req' = None
    /\ res' = NoResult
    /\ UNCHANGED <<build, cfg, opens, fin, fout>>

Next == Main \/ Listen \/ ListenFails \/ Serve \/ NextRequest

Spec == Init /\ [][Next]_vars

----------------------------------------------------------------------------
(* openDB on every data source string of MaxDsnLen characters at most *)

InitOpenDB ==
    /\ pc = "start"
    /\ build \in Builds
    /\ cfg \in [domain : {<<>>},
                dsn : Strs({"h", "1", ":", "/"}, MaxDsnLen),
                updateIntvl : {1, 24}, retryIntvl : {1, 24},
                silent : {FALSE}, lang : {"en"}, version : BOOLEAN]
    /\ opens = <<>>
    /\ req = None
    /\ res = NoResult
    /\ fin = None
    /\ fout = None

SpecOpenDB == InitOpenDB /\ [][Main]_vars

----------------------------------------------------------------------------
(* response on every record *)

InitFormat ==
    /\ pc = "call_response"
    /\ build = "part_000"
    /\ cfg = None
    /\ opens = <<>>
    /\ req = None
    /\ res = NoResult
    /\ fin \in [query : Records, ip : {<<10, 0, 0, 1>>}, lang : Langs]
    /\ fout = None

Format ==
    /\ pc = "call_response"
    /\ pc' = "ret_response"
    /\ fout' = [ret |-> responseFields(fin.query, fin.ip, fin.lang),
                txt |-> response(fin.query, fin.ip, fin.lang)]
    /\ UNCHANGED <<build, cfg, opens, req, res, fin>>

SpecFormat == InitFormat /\ [][Format]_vars

----------------------------------------------------------------------------
(* queryIP on every question name of MaxNameLen characters at most *)

InitQueryIP ==
    /\ pc = "call_queryIP"
    /\ build = "part_000"
    /\ cfg = None
    /\ opens = <<>>
    /\ req = None
    /\ res = NoResult
    /\ fin \in [q : [Name : FQDNs, Qtype : {"TXT"}, Qclass : {"INET"}],
                domain : Domains]
    /\ fout = None

QueryIP ==
    /\ pc = "call_queryIP"
    /\ pc' = "ret_queryIP"
    /\ \E env \in {e \in Envs : ~e.dberr} :
           fout' = queryIP(fin.q, fin.domain, env)
    /\ UNCHANGED <<build, cfg, opens, req, res, fin>>

SpecQueryIP == InitQueryIP /\ [][QueryIP]_vars

----------------------------------------------------------------------------
(* What one call of ServeDNS did *)

RECURSIVE CountChar(_, _)
CountChar(t, c) ==
    IF Len(t) = 0 THEN 0
    ELSE (IF t[1] = c THEN 1 ELSE 0) + CountChar(Tail(t), c)

Sel(out, op) == SelectSeq(out, LAMBDA e : e.op = op)

Writes == Sel(res.out, "WriteMsg")
Logs == Sel(res.out, "Printf")
Resolves == Sel(res.out, "LookupIP")
Lookups == Sel(res.out, "Lookup")

\* ServeDNS was called and has ended, by a return or by a panic
Called == pc \in {"handled", "panic"}

\* ServeDNS was called on a message with a question
Asked == Called /\ Len(req.msg.Question) > 0

Q == req.msg.Question[1]

\* position of the first event op in the trace, 0 when there is none
PosOf(op) ==
    IF \E i \in 1..Len(res.out) : res.out[i].op = op
    THEN CHOOSE i \in 1..Len(res.out) :
             res.out[i].op = op /\ \A j \in 1..(i - 1) : res.out[j].op # op
    ELSE 0

RcodeOnly(rcode) ==
    /\ Len(Writes) = 1
    /\ Writes[1].arg.Rcode = rcode
    /\ Writes[1].arg.Answer = <<>>

----------------------------------------------------------------------------
(* C1: a question that is not TXT or not INET is answered NXDOMAIN with no *)
(* answer record, whatever its name, and neither the resolver nor the      *)
(* database is asked.                                                      *)
C1_NotTXTIsNXDOMAIN ==
    (Asked /\ (Q.Qtype # "TXT" \/ Q.Qclass # "INET"))
        => /\ RcodeOnly(RcodeNameError)
           /\ Resolves = <<>>
           /\ Lookups = <<>>

C1_Witness ==
    /\ Asked
    /\ Q.Qtype = "TXT" /\ Q.Qclass = "CHAOS"
    /\ Q.Name = <<"1", ".", "1", ".", "1", ".", "1", ".", "g", ".">>
    /\ cfg.domain = <<"g">>
    /\ RcodeOnly(RcodeNameError)

(* C2: when the target address was obtained and the database lookup       *)
(* fails, the reply is SERVFAIL without answer; a TXT answer is sent only *)
(* when the lookup succeeded.                                             *)
C2_LookupErrorIsSERVFAIL ==
    (Asked /\ IsTXT(Q) /\ Lookups # <<>>)
        => /\ req.env.dberr => RcodeOnly(RcodeServerFailure)
           /\ (\E i \in 1..Len(Writes) : Writes[i].arg.Answer # <<>>)
                  => ~req.env.dberr

(* C3: when the token is not an IP literal and the resolver fails or      *)
(* returns no address the reply is NXDOMAIN and the database is not       *)
(* asked; otherwise the address looked up is one of those returned.       *)
C3_ResolvedAddress ==
    (Asked /\ IsTXT(Q) /\ Resolves # <<>>)
        => /\ Len(Resolves) = 1
           /\ ParseIP(Resolves[1].arg) = <<>>
           /\ IF req.env.err \/ req.env.ips = <<>>
              THEN RcodeOnly(RcodeNameError) /\ Lookups = <<>>
              ELSE /\ Len(Lookups) = 1
                   /\ Lookups[1].arg \in Range(req.env.ips)
                   /\ PosOf("LookupIP") < PosOf("Lookup")

C3_Witness ==
    /\ Asked /\ IsTXT(Q)
    /\ Resolves # <<>>
    /\ ~req.env.err
    /\ Len(req.env.ips) = 2
    /\ req.env.ips[1] # req.env.ips[2]
    /\ Len(Lookups) = 1
    /\ Lookups[1].arg = req.env.ips[2]

LabelOf(rcode) ==
    IF rcode = RcodeNameError THEN "NXDOMAIN"
    ELSE IF rcode = RcodeServerFailure THEN "SERVFAIL"
    ELSE "RESOLVED"

----------------------------------------------------------------------------
(* The formatter, under SpecFormat *)

Formatted == pc = "ret_response"

NFields == Len(fout.ret)

\* the fields in the order of the documentation, with the two of the
\* subdivision (sub) between the country name and the city
Documented(sub) ==
    <<IPString(fin.ip),
      fin.query.Country.ISOCode,
      MapGet(fin.query.Country.Names, fin.lang)>>
    \o sub
    \o <<MapGet(fin.query.City.Names, fin.lang),
         fin.query.Postal.Code,
         fin.query.Location.TimeZone,
         FormatFloat(fin.query.Location.Latitude, 1000000),
         FormatFloat(fin.query.Location.Longitude, 1000000),
         Itoa(fin.query.Location.MetroCode)>>

(* C5, as stated: 8 fields without a subdivision, 11 with one.            *)
C5_ArityEightOrEleven ==
    Formatted
        => NFields = IF Len(fin.query.Region) = 0 THEN 8 ELSE 11

(* C5, amended: 9 fields without a subdivision (IP, country ISO code,     *)
(* country name, city, postal code, timezone, latitude, longitude, metro  *)
(* code), 11 with one, its ISO code and name right after the country      *)
(* name; no empty field stands in for an absent subdivision; the text is  *)
(* the fields joined by four spaces.                                      *)
C5_ArityNineOrEleven ==
    Formatted
        => /\ IF Len(fin.query.Region) = 0
              THEN NFields = 9 /\ fout.ret = Documented(<<>>)
              ELSE /\ NFields = 11
                   /\ fout.ret =
                          Documented(<<fin.query.Region[1].ISOCode,
                                       MapGet(fin.query.Region[1].Names, fin.lang)>>)
           /\ CountChar(fout.txt, " ") = 4 * (NFields - 1)

C5_Witness ==
    /\ Formatted
    /\ Len(fin.query.Region) = 0
    /\ fin.lang = "pt"
    /\ NFields = 9
    /\ fout.ret[4] = <<>>
    /\ fout.ret[5] = <<"9", "4">>

\* the text f is digits, a point and two digits, after an optional sign
IsFixed2(f) ==
    LET b == IF Len(f) > 0 /\ f[1] = "-" THEN Tail(f) ELSE f IN
    /\ Len(b) >= 4
    /\ b[Len(b) - 2] = "."
    /\ \A i \in 1..Len(b) : i # Len(b) - 2 => IsDigit(b[i])

\* the hundredths a text of that form stands for, without its sign
HundredthsOf(f) ==
    LET b == IF f[1] = "-" THEN Tail(f) ELSE f IN
    Dtoi(SubSeq(b, 1, Len(b) - 3) \o SubSeq(b, Len(b) - 1, Len(b)), 0)

\* f is v millionths to the nearest hundredth, with two decimals
NearestHundredth(f, v) ==
    /\ IsFixed2(f)
    /\ (f[1] = "-") = (v < 0)
    /\ Abs(Abs(v) - 10000 * HundredthsOf(f)) <= 5000

LatField == fout.ret[NFields - 2]
LonField == fout.ret[NFields - 1]
Lat == fin.query.Location.Latitude
Lon == fin.query.Location.Longitude

(* C7, as stated: a coordinate is rounded half-up at 3 decimals and then  *)
(* formatted with 2.                                                      *)
C7_RoundedAtThreeThenTwo ==
    Formatted
        => /\ LatField = FormatFloat(roundFloat(Lat, 5, 3), 1000)
           /\ LonField = FormatFloat(roundFloat(Lon, 5, 3), 1000)

(* C7, amended: a coordinate is formatted with exactly 2 decimals, to the *)
(* nearest hundredth of the value itself; roundFloat is not applied.      *)
(* 37.774929 gives "37.77" and -122.419416 gives "-122.42".               *)
C7_NearestHundredth ==
    Formatted
        => /\ NearestHundredth(LatField, Lat)
           /\ NearestHundredth(LonField, Lon)
           /\ Lat = 37774929 => LatField = <<"3", "7", ".", "7", "7">>
           /\ Lon = -122419416
                  => LonField = <<"-", "1", "2", "2", ".", "4", "2">>

C7_Witness ==
    /\ Formatted
    /\ Lat = 4500
    /\ LatField = <<"0", ".", "0", "0">>
    /\ roundFloat(Lat, 5, 3) = 5
    /\ Lon = -122419416
    /\ LonField = <<"-", "1", "2", "2", ".", "4", "2">>

----------------------------------------------------------------------------
(* queryIP, under SpecQueryIP *)

Queried == pc = "ret_queryIP"

\* the token queryIP worked on: the host it gave the resolver, or the
\* literal it parsed
Token == IF fout.calls # <<>> THEN fout.calls[1].arg ELSE IPString(fout.ip)

Name == fin.q.Name

Suffix == <<".">> \o fin.domain

Occurs(s, sep, i) ==
    i >= 1 /\ i + Len(sep) - 1 <= Len(s) /\ SubSeq(s, i, i + Len(sep) - 1) = sep

\* t is four runs of digits between three dots, each at most 255
IsQuad(t) ==
    /\ CountChar(t, ".") = 3
    /\ \A i \in 1..4 :
           /\ Fields(t)[i] # <<>>
           /\ \A k \in 1..Len(Fields(t)[i]) : IsDigit(Fields(t)[i][k])
           /\ Dtoi(Fields(t)[i], 0) \in 0..255

(* C6, as stated: with a domain the token is what is left of the last     *)
(* ".<domain>" of the name; without one it is the name without its final  *)
(* dot; a name that is an IP literal, with or without the domain after    *)
(* it, is used directly and the resolver is not asked.                    *)
C6_TokenLeftOfLastSuffix ==
    Queried
        => /\ (fin.domain # <<>> /\ LastIndex(Name, Suffix) > 0)
                  => Token = SubSeq(Name, 1, LastIndex(Name, Suffix) - 1)
           /\ fin.domain = <<>> => Token = SubSeq(Name, 1, Len(Name) - 1)
           /\ (fin.domain = <<>> /\ ParseIP(SubSeq(Name, 1, Len(Name) - 1)) # <<>>)
                  => fout.calls = <<>>

(* C6, amended: with a domain the token is what is left of the FIRST      *)
(* ".<domain>" in the name, the whole name when there is none; without a  *)
(* domain it is the whole name, final dot included.  The resolver is      *)
(* asked exactly when the token is not an IP literal, so with no domain   *)
(* configured it is asked for every name, a literal one too.              *)
C6_TokenLeftOfFirstSuffix ==
    Queried
        => /\ fin.domain # <<>>
                  => \/ /\ Occurs(Name, Suffix, Len(Token) + 1)
                        /\ Token = SubSeq(Name, 1, Len(Token))
                        /\ \A j \in 1..Len(Token) : ~Occurs(Name, Suffix, j)
                     \/ /\ \A j \in 1..Len(Name) : ~Occurs(Name, Suffix, j)
                        /\ Token = Name
           /\ fin.domain = <<>> => Token = Name /\ fout.calls # <<>>
           /\ (fout.calls = <<>>) = IsQuad(Token)
           /\ fout.calls = <<>> => fout.ip # <<>>

C6_Witness ==
    /\ Queried
    /\ fin.domain = <<"g">>
    /\ Name = <<"1", ".", "1", ".", "1", ".", "1", ".", "g", ".">>
    /\ fout.calls = <<>>
    /\ fout.ip = <<1, 1, 1, 1>>

----------------------------------------------------------------------------
(* openDB, under SpecOpenDB *)

Opened == pc \in {"listening", "fatal_open"}

\* the string starts with a scheme: a letter, then letters, digits, '+',
\* '-' or '.', then ':'
HasScheme(dsn) ==
    \E i \in 2..Len(dsn) :
        /\ dsn[i] = ":"
        /\ IsLetter(dsn[1])
        /\ \A j \in 1..(i - 1) :
               IsLetter(dsn[j]) \/ IsDigit(dsn[j]) \/ dsn[j] \in {"+", "-", "."}

(* C9: openDB opens the source as a URL, with the update and max-retry    *)
(* intervals of the flags, exactly when it parses with a non-empty        *)
(* scheme, and as a file otherwise (also when it does not parse); it      *)
(* makes exactly one of the two calls.                                    *)
C9_RemoteIffScheme ==
    /\ Opened
           => /\ Len(opens) = 1
              /\ opens[1].dsn = cfg.dsn
              /\ (opens[1].fn = "OpenURL") = HasScheme(cfg.dsn)
              /\ (opens[1].fn = "Open") = ~HasScheme(cfg.dsn)
              /\ opens[1].fn = "OpenURL"
                     => opens[1].args = <<cfg.updateIntvl, cfg.retryIntvl>>
              /\ opens[1].fn = "Open" => opens[1].args = <<>>
              /\ urlParse(cfg.dsn).err => opens[1].fn = "Open"
    /\ ~Opened => opens = <<>>

C9_Witness ==
    /\ Opened
    /\ cfg.dsn = <<"h", ":", "/", "/">>
    /\ cfg.updateIntvl = 24 /\ cfg.retryIntvl = 1
    /\ opens = <<[fn |-> "OpenURL", dsn |-> cfg.dsn, args |-> <<24, 1>>]>>

====
